---- MODULE Spec2Model ----
(***************************************************************************)
(* Verification model of matrixcompare: the matrix comparison engine       *)
(* (compare_matrices), its failure types and the mock matrices it is       *)
(* tested with.                                                            *)
(***************************************************************************)
EXTENDS Integers, Sequences, FiniteSets, TLC

(***************************************************************************)
(* Bounds of the model.                                                    *)
(***************************************************************************)
\* rows and cols of every operand range over 0..MaxDim
MaxDim == 2
\* scalar values range over 0..MaxVal; 0 is T::zero()
MaxVal == 1
\* a sparse operand stores at most MaxNnz triplets
MaxNnz == 2
\* triplet sequences handed to the validator alone have at most MaxTriplets
MaxTriplets == 3
\* scalars handed to the comparators alone: integers of the range
\* -(MaxScalar + 1)..MaxScalar (signed) or 0..(2 * MaxScalar + 1) (unsigned),
\* floats of at most MaxScalar steps from zero
MaxScalar == 5
\* rows and cols of the operands handed to assert_matrix_eq! range over
\* 0..MaxAssertDim
MaxAssertDim == 1
\* number of concurrent callers
MaxCallers == 2
\* cells of the rows whose mismatches are rendered: more than the cap on the
\* mismatches that a report lists
MaxReported == 14

VARIABLES
    x,            \* left operand of the call
    y,            \* right operand of the call
    comparator,   \* the elementwise comparator of the call
    result,       \* what compare_matrices returned
    vrows,        \* declared rows handed to the triplet validator
    vcols,        \* declared cols handed to the triplet validator
    vtriplets,    \* triplet sequence handed to the triplet validator
    vresult,      \* what the validator returned
    overflow_checks, \* whether the build checks integer overflow (debug) or wraps
    form,         \* the form of the assertion macro that is invoked
    panicked,     \* whether the assertion macro panicked
    calls,        \* the calls compare_matrices made on its operands and comparator
    callers,      \* the local state of each caller with a call in progress
    report,       \* the rendered report of the failure of the call
    pc            \* "idle" before the call, "done" after it

vars == <<x, y, comparator, result, vrows, vcols, vtriplets, vresult,
          overflow_checks, form, panicked, calls, callers, report, pc>>

Values == 0..MaxVal
zero == 0
\* The floats of the model lie on a grid of GridStep between neighbours (the
\* next_f64 of the tests), so that differences are exact; epsilon is
\* T::epsilon(), with 4 * epsilon below the distance of two neighbours.
GridStep == 8
epsilon == 1
\* f64::INFINITY, above every difference of two finite floats
Inf == (2 * MaxScalar + 1) * GridStep
NegInf == 0 - Inf
\* a scalar that is not equal to itself under PartialEq (f64::NAN)
NaN == Inf + 1
\* -0.0: equal to 0.0, of negative sign
NegZero == 0 - NaN
Dims == 0..MaxDim

\* Sequences over S of length at most n.
SeqsUpTo(S, n) == UNION {[1..k -> S] : k \in 0..n}

(***************************************************************************)
(* Mock matrices (matrixcompare-mock).                                     *)
(***************************************************************************)
MockDenseMatrix(r, c, d) ==
    [access |-> "Dense", rows |-> r, cols |-> c, data |-> d, triplets |-> <<>>]

MockSparseMatrix(r, c, t) ==
    [access |-> "Sparse", rows |-> r, cols |-> c, data |-> <<>>, triplets |-> t]

\* row-major storage: data[row * cols + col], sequences being 1-based here
fetch_single(m, row, col) == m.data[row * m.cols + col + 1]

fetch_triplets(m) == m.triplets

(***************************************************************************)
(* Elementwise comparators.                                                *)
(***************************************************************************)
CmpOk == [ok |-> TRUE, error |-> [kind |-> "none", value |-> 0]]
CmpErr(e) == [ok |-> FALSE, error |-> e]

ExactError == [kind |-> "ExactError", value |-> 0]

\* the number a scalar stands for
num(v) == IF v = NegZero THEN 0 ELSE v

\* `a == b` of PartialEq: a NaN equals nothing, itself included
scalar_eq(a, b) == a # NaN /\ b # NaN /\ num(a) = num(b)
\* `a > b`, `a <= b` and `a >= b` of PartialOrd: false when a NaN is involved
scalar_gt(a, b) == a # NaN /\ b # NaN /\ num(a) > num(b)
scalar_le(a, b) == a # NaN /\ b # NaN /\ num(a) <= num(b)
scalar_ge(a, b) == a # NaN /\ b # NaN /\ num(a) >= num(b)

\* The scalar types: "u" unsigned and "i" signed integers of one width, "f"
\* floats.
ScalarTypes == {"u", "i", "f"}
Modulus == 2 * MaxScalar + 2
IntMin(ty) == IF ty = "i" THEN 0 - (MaxScalar + 1) ELSE 0
IntMax(ty) == IF ty = "i" THEN MaxScalar ELSE 2 * MaxScalar + 1

\* the outcome of an arithmetic operation: a value, or a panic
Computed(v) == [panic |-> FALSE, value |-> v]
Overflowed == [panic |-> TRUE, value |-> 0]

\* a - b of an integer type: out of the range of the type it panics in a
\* build with overflow checks and wraps around in one without
int_sub(ty, a, b) ==
    LET d == a - b
    IN  IF d >= IntMin(ty) /\ d <= IntMax(ty) THEN Computed(d)
        ELSE IF overflow_checks THEN Overflowed
        ELSE Computed(((d - IntMin(ty)) % Modulus) + IntMin(ty))

\* a - b of floats (IEEE 754), exact on the grid
float_sub(a, b) ==
    IF a = NaN \/ b = NaN THEN NaN
    ELSE IF a \in {Inf, NegInf} THEN (IF a = b THEN NaN ELSE a)
    ELSE IF b \in {Inf, NegInf} THEN 0 - b
    ELSE num(a) - num(b)

sub(ty, a, b) == IF ty = "f" THEN Computed(float_sub(a, b)) ELSE int_sub(ty, a, b)

\* the test inverted: equal values are rejected
ExactCompare_inverted(a, b) == IF scalar_eq(a, b) THEN CmpErr(ExactError) ELSE CmpOk

ExactCompare(a, b) == IF scalar_eq(a, b) THEN CmpOk ELSE CmpErr(ExactError)

\* A comparator supplied by the user of the trait: it accepts exactly the
\* pairs of its table.
CustomCompare(c, a, b) ==
    IF <<a, b>> \in c.accepts THEN CmpOk
    ELSE CmpErr([kind |-> "CustomError", value |-> 0])

\* a call of compare that unwinds instead of returning
CmpPanic == [ok |-> FALSE, error |-> [kind |-> "Panic", value |-> 0]]

AbsoluteError(d) == [kind |-> "AbsoluteError", value |-> d]
AbsoluteElementwiseComparator(ty, tol) == [kind |-> "abs", ty |-> ty, tol |-> tol]

\* the distance taken as a - b whatever the order of a and b
AbsCompare_signed_distance(c, a, b) ==
    IF ~scalar_ge(c.tol, zero) THEN CmpPanic
    ELSE IF scalar_eq(a, b) THEN CmpOk
    ELSE LET distance == sub(c.ty, a, b)
         IN  IF distance.panic THEN CmpPanic
             ELSE IF scalar_le(distance.value, c.tol) THEN CmpOk
             ELSE CmpErr(AbsoluteError(distance.value))

\* the assertion on the tolerance made after the test a == b
AbsCompare_assert_late(c, a, b) ==
    IF scalar_eq(a, b) THEN CmpOk
    ELSE IF ~scalar_ge(c.tol, zero) THEN CmpPanic
    ELSE LET distance == IF scalar_gt(a, b) THEN sub(c.ty, a, b) ELSE sub(c.ty, b, a)
         IN  IF distance.panic THEN CmpPanic
             ELSE IF scalar_le(distance.value, c.tol) THEN CmpOk
             ELSE CmpErr(AbsoluteError(distance.value))

AbsCompare(c, a, b) ==
    IF ~scalar_ge(c.tol, zero) THEN CmpPanic
    ELSE IF scalar_eq(a, b) THEN CmpOk
    ELSE LET distance == IF scalar_gt(a, b) THEN sub(c.ty, a, b) ELSE sub(c.ty, b, a)
         IN  IF distance.panic THEN CmpPanic
             ELSE IF scalar_le(distance.value, c.tol) THEN CmpOk
             ELSE CmpErr(AbsoluteError(distance.value))

\* UlpComparisonResult
ExactMatch == [tag |-> "ExactMatch", diff |-> 0]
Difference(d) == [tag |-> "Difference", diff |-> d]
IncompatibleSigns == [tag |-> "IncompatibleSigns", diff |-> 0]
Nan == [tag |-> "Nan", diff |-> 0]

\* the position of a float among the floats of its sign, counted from zero
is_sign_positive(v) == v # NegZero /\ v >= 0
ulp_bits(v) ==
    IF v \in {Inf, NegInf} THEN MaxScalar + 1
    ELSE (IF num(v) >= 0 THEN num(v) ELSE 0 - num(v)) \div GridStep

\* Ulp::ulp_diff: the number of floats between a and b
ulp_diff(a, b) ==
    IF scalar_eq(a, b) THEN ExactMatch
    ELSE IF a = NaN \/ b = NaN THEN Nan
    ELSE IF is_sign_positive(a) # is_sign_positive(b) THEN IncompatibleSigns
    ELSE LET d == ulp_bits(a) - ulp_bits(b)
         IN  Difference(IF d >= 0 THEN d ELSE 0 - d)

UlpError(r) == [kind |-> "UlpError", value |-> r]
UlpElementwiseComparator(tol) == [kind |-> "ulp", tol |-> tol]

\* the tolerance taken as exclusive
UlpCompare_strict(c, a, b) ==
    LET diff == ulp_diff(a, b)
    IN  IF diff.tag = "ExactMatch" THEN CmpOk
        ELSE IF diff.tag = "Difference" /\ diff.diff < c.tol THEN CmpOk
        ELSE CmpErr(UlpError(diff))

UlpCompare(c, a, b) ==
    LET diff == ulp_diff(a, b)
    IN  IF diff.tag = "ExactMatch" THEN CmpOk
        ELSE IF diff.tag = "Difference" /\ diff.diff <= c.tol THEN CmpOk
        ELSE CmpErr(UlpError(diff))

FloatElementwiseComparator(abs, ulp) == [kind |-> "float", abs |-> abs, ulp |-> ulp]

\* both stages required to accept
FloatCompare_both_stages(c, a, b) ==
    LET first == AbsCompare(c.abs, a, b)
    IN  IF first = CmpPanic THEN CmpPanic
        ELSE IF ~first.ok THEN CmpErr(UlpError(ulp_diff(a, b)))
        ELSE UlpCompare(c.ulp, a, b)

\* the absolute stage alone deciding, the ULP stage only naming the error
FloatCompare_abs_only(c, a, b) ==
    LET first == AbsCompare(c.abs, a, b)
    IN  IF first = CmpPanic THEN CmpPanic
        ELSE IF ~first.ok THEN CmpErr(UlpError(ulp_diff(a, b)))
        ELSE CmpOk

FloatCompare(c, a, b) ==
    LET first == AbsCompare(c.abs, a, b)
    IN  IF first = CmpPanic THEN CmpPanic
        ELSE IF ~first.ok THEN UlpCompare(c.ulp, a, b)
        ELSE CmpOk

\* FloatElementwiseComparator::default and its builders eps and ulp
DefaultUlpTol == 4
default ==
    FloatElementwiseComparator(AbsoluteElementwiseComparator("f", 4 * epsilon),
                               UlpElementwiseComparator(DefaultUlpTol))
\* eps that builds on the default comparator instead of self
eps_from_default(self, e) ==
    FloatElementwiseComparator(AbsoluteElementwiseComparator("f", e),
                               UlpElementwiseComparator(DefaultUlpTol))

eps(self, e) == FloatElementwiseComparator(AbsoluteElementwiseComparator("f", e), self.ulp)
ulp(self, max_ulp) == FloatElementwiseComparator(self.abs, UlpElementwiseComparator(max_ulp))

compare(c, a, b) ==
    CASE c.kind = "exact" -> ExactCompare(a, b)
      [] c.kind = "abs" -> AbsCompare(c, a, b)
      [] c.kind = "ulp" -> UlpCompare(c, a, b)
      [] c.kind = "float" -> FloatCompare(c, a, b)
      [] OTHER -> CustomCompare(c, a, b)

description(c) == IF c.kind = "exact" THEN "exact equality x == y." ELSE c.kind

ExactElementwiseComparator == [kind |-> "exact", accepts |-> {}]
\* accepts a strictly smaller left value: asymmetric, and rejects (zero, zero)
LessComparator == [kind |-> "less", accepts |-> {p \in Values \X Values : p[1] < p[2]}]

Comparators == {ExactElementwiseComparator, LessComparator}

(***************************************************************************)
(* Failures (comparison_failure.rs).                                       *)
(***************************************************************************)
Match == [tag |-> "Ok"]
\* a call that unwinds instead of returning
Panic == [tag |-> "Panic"]

MatrixElementComparisonFailure(a, b, e, i, j) ==
    [x |-> a, y |-> b, error |-> e, row |-> i, col |-> j]

MismatchedDimensions(dx, dy) ==
    [tag |-> "MismatchedDimensions", dim_x |-> dx, dim_y |-> dy]

MismatchedElements(desc, ms) ==
    [tag |-> "MismatchedElements", comparator_description |-> desc, mismatches |-> ms]

Left(coord) == [side |-> "Left", coord |-> coord]
Right(coord) == [side |-> "Right", coord |-> coord]

SparseEntryOutOfBounds(entry) == [tag |-> "SparseEntryOutOfBounds", entry |-> entry]
DuplicateSparseEntry(entry) == [tag |-> "DuplicateSparseEntry", entry |-> entry]

(***************************************************************************)
(* Dense-dense strategy (matrix_comparison.rs).                            *)
(***************************************************************************)
\* The two nested loops `for i in 0..x.rows() { for j in 0..x.cols() {..} }`
\* with the vector of mismatches collected so far.
RECURSIVE dense_dense_loop(_, _, _, _, _, _)
dense_dense_loop(xa, ya, c, i, j, mismatches) ==
    IF i >= xa.rows THEN mismatches
    ELSE IF j >= xa.cols THEN dense_dense_loop(xa, ya, c, i + 1, 0, mismatches)
    ELSE LET a == fetch_single(xa, i, j)
             b == fetch_single(ya, i, j)
             r == compare(c, a, b)
         IN  dense_dense_loop(xa, ya, c, i, j + 1,
                 IF r.ok THEN mismatches
                 ELSE Append(mismatches, MatrixElementComparisonFailure(a, b, r.error, i, j)))

\* a scan that returns at the first mismatch
fetch_dense_dense_mismatches_first_only(xa, ya, c) ==
    LET all == dense_dense_loop(xa, ya, c, 0, 0, <<>>)
    IN  IF all = <<>> THEN <<>> ELSE <<all[1]>>

\* a scan with the two loops interchanged: columns outermost
RECURSIVE dense_dense_loop_by_column(_, _, _, _, _, _)
dense_dense_loop_by_column(xa, ya, c, i, j, mismatches) ==
    IF j >= xa.cols THEN mismatches
    ELSE IF i >= xa.rows THEN dense_dense_loop_by_column(xa, ya, c, 0, j + 1, mismatches)
    ELSE LET a == fetch_single(xa, i, j)
             b == fetch_single(ya, i, j)
             r == compare(c, a, b)
         IN  dense_dense_loop_by_column(xa, ya, c, i + 1, j,
                 IF r.ok THEN mismatches
                 ELSE Append(mismatches, MatrixElementComparisonFailure(a, b, r.error, i, j)))

fetch_dense_dense_mismatches_by_column(xa, ya, c) ==
    dense_dense_loop_by_column(xa, ya, c, 0, 0, <<>>)

\* assert!(x.rows() == y.rows() && x.cols() == y.cols()), with the operands
\* transposed in the second one
assert_same_shape_transposed(xa, ya) == xa.rows = ya.cols /\ xa.cols = ya.rows

assert_same_shape(xa, ya) == xa.rows = ya.rows /\ xa.cols = ya.cols

\* self.data[idx] of fetch_single is a checked index into the Vec
fetch_single_in_range(m, row, col) == row * m.cols + col < Len(m.data)

\* the dense-dense scan panics when its assertion fails or when a cell it
\* visits is outside the data of an operand
dense_dense_panics(xa, ya) ==
    \/ ~assert_same_shape(xa, ya)
    \/ \E i \in 0..(xa.rows - 1), j \in 0..(xa.cols - 1) :
           ~fetch_single_in_range(xa, i, j) \/ ~fetch_single_in_range(ya, i, j)

fetch_dense_dense_mismatches(xa, ya, c) == dense_dense_loop(xa, ya, c, 0, 0, <<>>)

\* MismatchedElements whatever was collected
elements_result_always_failure(c, mismatches) ==
    MismatchedElements(description(c), mismatches)

\* Zero collected mismatches is success, anything else MismatchedElements.
elements_result(c, mismatches) ==
    IF mismatches = <<>> THEN Match
    ELSE MismatchedElements(description(c), mismatches)

(***************************************************************************)
(* Sparse triplet validator: builds the coordinate -> value map and        *)
(* reports the first violation in iteration order.                         *)
(***************************************************************************)
EmptyMap == [coord \in {} |-> zero]

OutOfBoundsCoord(coord) == [ok |-> FALSE, kind |-> "OutOfBounds", coord |-> coord]
DuplicateCoord(coord) == [ok |-> FALSE, kind |-> "Duplicate", coord |-> coord]
MapBuilt(map) == [ok |-> TRUE, map |-> map]

\* the bounds test with > in place of >=: row = rows and col = cols pass
RECURSIVE build_map_from_inclusive(_, _, _, _, _)
build_map_from_inclusive(rows, cols, triplets, k, map) ==
    IF k > Len(triplets) THEN MapBuilt(map)
    ELSE LET i == triplets[k][1]
             j == triplets[k][2]
             v == triplets[k][3]
         IN  IF i > rows \/ j > cols THEN OutOfBoundsCoord(<<i, j>>)
             ELSE IF <<i, j>> \in DOMAIN map THEN DuplicateCoord(<<i, j>>)
             ELSE build_map_from_inclusive(rows, cols, triplets, k + 1, (<<i, j>> :> v) @@ map)

RECURSIVE build_map_from(_, _, _, _, _)
build_map_from(rows, cols, triplets, k, map) ==
    IF k > Len(triplets) THEN MapBuilt(map)
    ELSE LET i == triplets[k][1]
             j == triplets[k][2]
             v == triplets[k][3]
         IN  IF i >= rows \/ j >= cols THEN OutOfBoundsCoord(<<i, j>>)
             ELSE IF <<i, j>> \in DOMAIN map THEN DuplicateCoord(<<i, j>>)
             ELSE build_map_from(rows, cols, triplets, k + 1, (<<i, j>> :> v) @@ map)

build_sparse_map(rows, cols, triplets) == build_map_from(rows, cols, triplets, 1, EmptyMap)

\* lookup with the implicit zero of an absent coordinate
map_get(map, coord) == IF coord \in DOMAIN map THEN map[coord] ELSE zero

\* the side handed in by the caller ignored: every failure tagged Right
sparse_failure_always_right(build, side) ==
    IF build.kind = "OutOfBounds" THEN SparseEntryOutOfBounds(Right(build.coord))
    ELSE DuplicateSparseEntry(Right(build.coord))

\* the caller of the validator assigns the side
sparse_failure(build, side) ==
    LET entry == IF side = "Left" THEN Left(build.coord) ELSE Right(build.coord)
    IN  IF build.kind = "OutOfBounds" THEN SparseEntryOutOfBounds(entry)
        ELSE DuplicateSparseEntry(entry)

(***************************************************************************)
(* Dense-sparse strategy; sparse-dense is the same strategy with the       *)
(* operands swapped and swap_order set, which flips the side tag and the   *)
(* left/right roles back to the caller's order.                            *)
(***************************************************************************)
RECURSIVE dense_sparse_loop(_, _, _, _, _, _, _)
dense_sparse_loop(dense, map, c, swap_order, i, j, mismatches) ==
    IF i >= dense.rows THEN mismatches
    ELSE IF j >= dense.cols THEN dense_sparse_loop(dense, map, c, swap_order, i + 1, 0, mismatches)
    ELSE LET a == fetch_single(dense, i, j)
             b == map_get(map, <<i, j>>)
             l == IF swap_order THEN b ELSE a
             r == IF swap_order THEN a ELSE b
             cmp == compare(c, l, r)
         IN  dense_sparse_loop(dense, map, c, swap_order, i, j + 1,
                 IF cmp.ok THEN mismatches
                 ELSE Append(mismatches, MatrixElementComparisonFailure(l, r, cmp.error, i, j)))

compare_dense_sparse(dense, sparse, c, swap_order) ==
    LET build == build_sparse_map(sparse.rows, sparse.cols, fetch_triplets(sparse))
    IN  IF ~build.ok THEN sparse_failure(build, IF swap_order THEN "Left" ELSE "Right")
        ELSE elements_result(c, dense_sparse_loop(dense, build.map, c, swap_order, 0, 0, <<>>))

(***************************************************************************)
(* Sparse-sparse strategy: union of the stored coordinates, then a sort of *)
(* the mismatches by (row, col).                                           *)
(***************************************************************************)
RECURSIVE triplet_coords(_, _)
triplet_coords(triplets, k) ==
    IF k > Len(triplets) THEN <<>>
    ELSE <<(<<triplets[k][1], triplets[k][2]>>)>> \o triplet_coords(triplets, k + 1)

\* the keys of the left operand only
union_coords_left_only(left_triplets, right_triplets, left_map) ==
    triplet_coords(left_triplets, 1)

\* The order in which the union of the two key sets is visited is not part
\* of the contract; here: the left keys in storage order, then the right
\* keys the left operand lacks.
union_coords(left_triplets, right_triplets, left_map) ==
    triplet_coords(left_triplets, 1)
        \o SelectSeq(triplet_coords(right_triplets, 1), LAMBDA coord : coord \notin DOMAIN left_map)

coord_less(a, b) == a.row < b.row \/ (a.row = b.row /\ a.col < b.col)

\* insert m into an ascending list, after the entries that are not greater
RECURSIVE insert_sorted(_, _)
insert_sorted(sorted, m) ==
    IF sorted = <<>> THEN <<m>>
    ELSE IF coord_less(m, Head(sorted)) THEN <<m>> \o sorted
    ELSE <<Head(sorted)>> \o insert_sorted(Tail(sorted), m)

\* no sort: the mismatches stay in visiting order
sort_by_coord_skipped(mismatches) == mismatches

RECURSIVE sort_by_coord(_)
sort_by_coord(mismatches) ==
    IF mismatches = <<>> THEN <<>>
    ELSE insert_sorted(sort_by_coord(SubSeq(mismatches, 1, Len(mismatches) - 1)),
                       mismatches[Len(mismatches)])

RECURSIVE sparse_sparse_loop(_, _, _, _, _, _)
sparse_sparse_loop(coords, left_map, right_map, c, k, mismatches) ==
    IF k > Len(coords) THEN mismatches
    ELSE LET a == map_get(left_map, coords[k])
             b == map_get(right_map, coords[k])
             cmp == compare(c, a, b)
         IN  sparse_sparse_loop(coords, left_map, right_map, c, k + 1,
                 IF cmp.ok THEN mismatches
                 ELSE Append(mismatches,
                        MatrixElementComparisonFailure(a, b, cmp.error, coords[k][1], coords[k][2])))

\* the right operand validated before the left one
compare_sparse_sparse_right_first(left, right, c) ==
    LET left_build == build_sparse_map(left.rows, left.cols, fetch_triplets(left))
        right_build == build_sparse_map(right.rows, right.cols, fetch_triplets(right))
    IN  IF ~right_build.ok THEN sparse_failure(right_build, "Right")
        ELSE IF ~left_build.ok THEN sparse_failure(left_build, "Left")
        ELSE elements_result(c,
                sort_by_coord(
                    sparse_sparse_loop(
                        union_coords(fetch_triplets(left), fetch_triplets(right), left_build.map),
                        left_build.map, right_build.map, c, 1, <<>>)))

compare_sparse_sparse(left, right, c) ==
    LET left_build == build_sparse_map(left.rows, left.cols, fetch_triplets(left))
        right_build == build_sparse_map(right.rows, right.cols, fetch_triplets(right))
    IN  IF ~left_build.ok THEN sparse_failure(left_build, "Left")
        ELSE IF ~right_build.ok THEN sparse_failure(right_build, "Right")
        ELSE elements_result(c,
                sort_by_coord(
                    sparse_sparse_loop(
                        union_coords(fetch_triplets(left), fetch_triplets(right), left_build.map),
                        left_build.map, right_build.map, c, 1, <<>>)))

(***************************************************************************)
(* The entry point.                                                        *)
(***************************************************************************)
shapes_match(xm, ym) == xm.rows = ym.rows /\ xm.cols = ym.cols

\* the failure built with the two shapes interchanged
dimension_mismatch_swapped(xm, ym) ==
    MismatchedDimensions(<<ym.rows, ym.cols>>, <<xm.rows, xm.cols>>)

dimension_mismatch(xm, ym) ==
    MismatchedDimensions(<<xm.rows, xm.cols>>, <<ym.rows, ym.cols>>)

\* the operands validated before the shapes are compared
compare_matrices_validate_first(xm, ym, c) ==
    LET xbuild == build_sparse_map(xm.rows, xm.cols, fetch_triplets(xm))
        ybuild == build_sparse_map(ym.rows, ym.cols, fetch_triplets(ym))
    IN  IF xm.access = "Sparse" /\ ~xbuild.ok THEN sparse_failure(xbuild, "Left")
        ELSE IF ym.access = "Sparse" /\ ~ybuild.ok THEN sparse_failure(ybuild, "Right")
        ELSE IF ~shapes_match(xm, ym) THEN dimension_mismatch(xm, ym)
        ELSE CASE xm.access = "Dense" /\ ym.access = "Dense" ->
                    elements_result(c, fetch_dense_dense_mismatches(xm, ym, c))
               [] xm.access = "Dense" /\ ym.access = "Sparse" ->
                    compare_dense_sparse(xm, ym, c, FALSE)
               [] xm.access = "Sparse" /\ ym.access = "Dense" ->
                    compare_dense_sparse(ym, xm, c, TRUE)
               [] OTHER ->
                    compare_sparse_sparse(xm, ym, c)

compare_matrices(xm, ym, c) ==
    IF shapes_match(xm, ym) THEN
        CASE xm.access = "Dense" /\ ym.access = "Dense" ->
                IF dense_dense_panics(xm, ym) THEN Panic
                ELSE elements_result(c, fetch_dense_dense_mismatches(xm, ym, c))
          [] xm.access = "Dense" /\ ym.access = "Sparse" ->
                compare_dense_sparse(xm, ym, c, FALSE)
          [] xm.access = "Sparse" /\ ym.access = "Dense" ->
                compare_dense_sparse(ym, xm, c, TRUE)
          [] OTHER ->
                compare_sparse_sparse(xm, ym, c)
    ELSE dimension_mismatch(xm, ym)

(***************************************************************************)
(* The calls compare_matrices makes on the capabilities of its operands    *)
(* (rows, cols, access, fetch_single, fetch_triplets) and on the           *)
(* comparator (compare), in the order it makes them.                       *)
(***************************************************************************)
Call(op, on, row, col) == [op |-> op, on |-> on, row |-> row, col |-> col]

\* x.rows() == y.rows() && x.cols() == y.cols(): the columns are only asked
\* when the rows are equal
shape_calls(xm, ym) ==
    <<Call("rows", "x", 0, 0), Call("rows", "y", 0, 0)>>
    \o (IF xm.rows = ym.rows THEN <<Call("cols", "x", 0, 0), Call("cols", "y", 0, 0)>>
        ELSE <<>>)

\* the cells of a row with the right operand asked for cell (j, i)
RECURSIVE row_calls_transposed(_, _, _)
row_calls_transposed(xa, i, j) ==
    IF j >= xa.cols THEN <<>>
    ELSE <<Call("fetch_single", "x", i, j), Call("fetch_single", "y", j, i),
           Call("compare", "comparator", i, j)>>
         \o row_calls_transposed(xa, i, j + 1)

\* the cells of row i from column j on: two fetches and one comparison each
RECURSIVE row_calls(_, _, _)
row_calls(xa, i, j) ==
    IF j >= xa.cols THEN <<>>
    ELSE <<Call("fetch_single", "x", i, j), Call("fetch_single", "y", i, j),
           Call("compare", "comparator", i, j)>>
         \o row_calls(xa, i, j + 1)

\* the rows from i on; x.cols() is asked once for each row
RECURSIVE rows_calls(_, _)
rows_calls(xa, i) ==
    IF i >= xa.rows THEN <<>>
    ELSE <<Call("cols", "x", 0, 0)>> \o row_calls(xa, i, 0) \o rows_calls(xa, i + 1)

\* fetch_dense_dense_mismatches: the assertion, then the two loops
dense_dense_calls(xa, ya) ==
    <<Call("rows", "x", 0, 0), Call("rows", "y", 0, 0),
      Call("cols", "x", 0, 0), Call("cols", "y", 0, 0),
      Call("rows", "x", 0, 0)>>
    \o rows_calls(xa, 0)

\* dense against sparse: the triplets are fetched and validated, then the
\* dense shape is scanned
RECURSIVE dense_scan_calls(_, _, _, _)
dense_scan_calls(dense, side, i, j) ==
    IF i >= dense.rows THEN <<>>
    ELSE IF j >= dense.cols THEN dense_scan_calls(dense, side, i + 1, 0)
    ELSE <<Call("fetch_single", side, i, j), Call("compare", "comparator", i, j)>>
         \o dense_scan_calls(dense, side, i, j + 1)

dense_sparse_calls(dense, sparse, dense_side, sparse_side) ==
    <<Call("fetch_triplets", sparse_side, 0, 0)>>
    \o (IF build_sparse_map(sparse.rows, sparse.cols, fetch_triplets(sparse)).ok
        THEN dense_scan_calls(dense, dense_side, 0, 0)
        ELSE <<>>)

\* sparse against sparse: left triplets, then right triplets, then one
\* comparison for each coordinate of the union
sparse_sparse_calls(left, right) ==
    LET left_build == build_sparse_map(left.rows, left.cols, fetch_triplets(left))
        right_build == build_sparse_map(right.rows, right.cols, fetch_triplets(right))
        coords == union_coords(fetch_triplets(left), fetch_triplets(right), left_build.map)
    IN  <<Call("fetch_triplets", "x", 0, 0)>>
        \o (IF ~left_build.ok THEN <<>>
            ELSE <<Call("fetch_triplets", "y", 0, 0)>>
                 \o (IF ~right_build.ok THEN <<>>
                     ELSE [k \in 1..Len(coords) |->
                              Call("compare", "comparator", coords[k][1], coords[k][2])]))

element_calls(xm, ym) ==
    CASE xm.access = "Dense" /\ ym.access = "Dense" -> dense_dense_calls(xm, ym)
      [] xm.access = "Dense" /\ ym.access = "Sparse" -> dense_sparse_calls(xm, ym, "x", "y")
      [] xm.access = "Sparse" /\ ym.access = "Dense" -> dense_sparse_calls(ym, xm, "y", "x")
      [] OTHER -> sparse_sparse_calls(xm, ym)

\* the operands accessed before their shapes are compared
compare_matrices_calls_access_first(xm, ym, c) ==
    <<Call("access", "x", 0, 0), Call("access", "y", 0, 0)>>
    \o shape_calls(xm, ym)
    \o (IF shapes_match(xm, ym) THEN element_calls(xm, ym)
        ELSE <<Call("rows", "x", 0, 0), Call("cols", "x", 0, 0),
               Call("rows", "y", 0, 0), Call("cols", "y", 0, 0)>>)

compare_matrices_calls(xm, ym, c) ==
    shape_calls(xm, ym)
    \o (IF shapes_match(xm, ym)
        THEN <<Call("access", "x", 0, 0), Call("access", "y", 0, 0)>> \o element_calls(xm, ym)
        ELSE <<Call("rows", "x", 0, 0), Call("cols", "x", 0, 0),
               Call("rows", "y", 0, 0), Call("cols", "y", 0, 0)>>)

(***************************************************************************)
(* MatrixComparisonFailure::reverse (comparison_failure.rs).               *)
(***************************************************************************)
reverse_element(m) == [x |-> m.y, y |-> m.x, error |-> m.error, row |-> m.row, col |-> m.col]

reverse_entry(entry) == IF entry.side = "Left" THEN Right(entry.coord) ELSE Left(entry.coord)

reverse_elements(ms) == [k \in 1..Len(ms) |-> reverse_element(ms[k])]

\* The DuplicateSparseEntry arm constructs SparseEntryOutOfBounds, as the
\* source does.
reverse(failure) ==
    CASE failure.tag = "MismatchedDimensions" ->
            MismatchedDimensions(failure.dim_y, failure.dim_x)
      [] failure.tag = "MismatchedElements" ->
            MismatchedElements(failure.comparator_description, reverse_elements(failure.mismatches))
      [] failure.tag = "SparseEntryOutOfBounds" ->
            SparseEntryOutOfBounds(reverse_entry(failure.entry))
      [] failure.tag = "DuplicateSparseEntry" ->
            SparseEntryOutOfBounds(reverse_entry(failure.entry))

\* Result::map_err(|err| err.reverse()): success is left alone
reverse_result(res) == IF res = Match THEN Match ELSE reverse(res)

(***************************************************************************)
(* MockSparseMatrix::to_dense.                                             *)
(***************************************************************************)
\* the index of column-major storage
get_linear_index_column_major(rows, cols, i, j) ==
    IF i < rows /\ j < cols THEN [some |-> TRUE, idx |-> j * rows + i]
    ELSE [some |-> FALSE, idx |-> 0]

get_linear_index(rows, cols, i, j) ==
    IF i < rows /\ j < cols THEN [some |-> TRUE, idx |-> i * cols + j]
    ELSE [some |-> FALSE, idx |-> 0]

RECURSIVE to_dense_from(_, _, _)
to_dense_from(m, k, data) ==
    IF k > Len(m.triplets) THEN [ok |-> TRUE, matrix |-> MockDenseMatrix(m.rows, m.cols, data)]
    ELSE LET at == get_linear_index(m.rows, m.cols, m.triplets[k][1], m.triplets[k][2])
         IN  IF ~at.some THEN [ok |-> FALSE, matrix |-> MockDenseMatrix(0, 0, <<>>)]
             ELSE to_dense_from(m, k + 1, [data EXCEPT ![at.idx + 1] = m.triplets[k][3]])

\* the triplets written in reverse order: the first of a coordinate stays
to_dense_first_wins(m) ==
    to_dense_from([m EXCEPT !.triplets = [k \in 1..Len(m.triplets) |->
                                            m.triplets[Len(m.triplets) + 1 - k]]],
                  1, [k \in 1..(m.rows * m.cols) |-> zero])

to_dense(m) == to_dense_from(m, 1, [k \in 1..(m.rows * m.cols) |-> zero])

(***************************************************************************)
(* Display for ElementsMismatch (comparison_failure.rs): the report as its *)
(* parts: the number stated, the mismatches listed, the line about the     *)
(* mismatches not shown, the comparison criterion.                         *)
(***************************************************************************)
MAX_MISMATCH_REPORTS == 12

NoReport == [rendered |-> FALSE]
NoOverflowMsg == [shown |-> FALSE, hidden |-> 0]
OverflowMsg(n) == [shown |-> TRUE, hidden |-> n]

\* self.mismatches.iter().take(n)
take(ms, n) == SubSeq(ms, 1, IF Len(ms) < n THEN Len(ms) ELSE n)

\* a report that lists every mismatch and never has the line
fmt_elements_mismatch_uncapped(failure) ==
    [rendered |-> TRUE,
     num |-> Len(failure.mismatches),
     mismatches |-> failure.mismatches,
     overflow_msg |-> NoOverflowMsg,
     description |-> failure.comparator_description]

fmt_elements_mismatch(failure) ==
    LET mismatches_overflow == Len(failure.mismatches) > MAX_MISMATCH_REPORTS
        overflow_msg ==
            IF mismatches_overflow
            THEN OverflowMsg(Len(failure.mismatches) - MAX_MISMATCH_REPORTS)
            ELSE NoOverflowMsg
    IN  [rendered |-> TRUE,
         num |-> Len(failure.mismatches),
         mismatches |-> take(failure.mismatches, MAX_MISMATCH_REPORTS),
         overflow_msg |-> overflow_msg,
         description |-> failure.comparator_description]


(***************************************************************************)
(* Operands and the state machine of one call.                             *)
(***************************************************************************)
DenseMatrices(r, c, V) == {MockDenseMatrix(r, c, d) : d \in [1..(r * c) -> V]}

\* stored coordinates range up to and including the declared dimension, so
\* row = rows and col = cols occur
TripletsOf(r, c, V) == (0..r) \X (0..c) \X V

SparseMatrices(r, c, n, V) ==
    {MockSparseMatrix(r, c, t) : t \in SeqsUpTo(TripletsOf(r, c, V), n)}

Matrices(r, c, n, V) == DenseMatrices(r, c, V) \cup SparseMatrices(r, c, n, V)

NoMatrix == MockDenseMatrix(0, 0, <<>>)
NoResult == [tag |-> "none"]

NoForm == [macro |-> "none", comp |-> "none", tol |-> 0, keys |-> <<>>]
MacroIdle ==
    /\ form = NoForm
    /\ panicked = FALSE
    /\ calls = <<>>
    /\ report = NoReport
    /\ callers = <<>>

ValidatorIdle ==
    /\ vrows = 0
    /\ vcols = 0
    /\ vtriplets = <<>>
    /\ vresult = NoResult

Init ==
    /\ \E r \in Dims, c \in Dims : x \in Matrices(r, c, MaxNnz, Values)
    /\ \E r \in Dims, c \in Dims : y \in Matrices(r, c, MaxNnz, Values)
    /\ comparator \in Comparators
    /\ result = NoResult
    /\ MacroIdle
    /\ ValidatorIdle
    /\ overflow_checks = TRUE
    /\ pc = "idle"

\* One call of compare_matrices on the operands of the state.
Compare ==
    /\ pc = "idle"
    /\ result' = compare_matrices(x, y, comparator)
    /\ calls' = compare_matrices_calls(x, y, comparator)
    /\ pc' = "done"
    /\ UNCHANGED <<x, y, comparator, vrows, vcols, vtriplets, vresult, overflow_checks, form, panicked, callers, report>>

Next == Compare

Spec == Init /\ [][Next]_vars

(***************************************************************************)
(* A matrix compared with itself under the exact comparator, its scalars   *)
(* being any values of the type, NaN included.                             *)
(***************************************************************************)
InitSelf ==
    /\ \E r \in Dims, c \in Dims : x \in Matrices(r, c, MaxNnz, Values \cup {NaN})
    /\ y = x
    /\ comparator = ExactElementwiseComparator
    /\ result = NoResult
    /\ MacroIdle
    /\ ValidatorIdle
    /\ overflow_checks = TRUE
    /\ pc = "idle"

SpecSelf == InitSelf /\ [][Next]_vars

(***************************************************************************)
(* The triplet validator on its own.                                       *)
(***************************************************************************)
InitValidator ==
    /\ x = NoMatrix
    /\ y = NoMatrix
    /\ comparator = ExactElementwiseComparator
    /\ result = NoResult
    /\ MacroIdle
    /\ vrows \in Dims
    /\ vcols \in Dims
    /\ vtriplets \in SeqsUpTo(Dims \X Dims \X Values, MaxTriplets)
    /\ vresult = NoResult
    /\ overflow_checks = TRUE
    /\ pc = "idle"

Validate ==
    /\ pc = "idle"
    /\ vresult' = build_sparse_map(vrows, vcols, vtriplets)
    /\ pc' = "done"
    /\ UNCHANGED <<x, y, comparator, result, vrows, vcols, vtriplets, overflow_checks, form, panicked, calls, callers, report>>

NextValidator == Validate

SpecValidator == InitValidator /\ [][NextValidator]_vars

(***************************************************************************)
(* compare_scalars (scalar_comparison.rs) and the comparators on their     *)
(* own: one call on two scalars of one type.                               *)
(***************************************************************************)
ScalarMatch == [tag |-> "Match"]
ScalarComparisonFailure(xs, ys, e) == [x |-> xs, y |-> ys, error |-> e]
Mismatch(c, m) == [tag |-> "Mismatch", comparator |-> c, mismatch |-> m]

\* the failure with the two values interchanged
compare_scalars_swapped(xs, ys, c) ==
    LET r == compare(c, xs, ys)
    IN  IF r = CmpPanic THEN Panic
        ELSE IF ~r.ok THEN Mismatch(c, ScalarComparisonFailure(ys, xs, r.error))
        ELSE ScalarMatch

compare_scalars(xs, ys, c) ==
    LET r == compare(c, xs, ys)
    IN  IF r = CmpPanic THEN Panic
        ELSE IF ~r.ok THEN Mismatch(c, ScalarComparisonFailure(xs, ys, r.error))
        ELSE ScalarMatch

Floats ==
    {k * GridStep : k \in (0 - MaxScalar)..MaxScalar} \cup {NegZero, Inf, NegInf, NaN}
ScalarValues(ty) == IF ty = "f" THEN Floats ELSE IntMin(ty)..IntMax(ty)

\* tolerances: a negative one, zero, and positive ones; for floats 4 * epsilon
\* and the floats of the grid
Tolerances(ty) ==
    IF ty = "f" THEN {0 - GridStep, 4 * epsilon} \cup {k * GridStep : k \in 0..MaxScalar}
    ELSE IF ty = "i" THEN (0 - 1)..MaxScalar
    ELSE 0..MaxScalar
UlpTolerances == 0..MaxScalar

ScalarComparators(ty) ==
    {ExactElementwiseComparator}
    \cup {AbsoluteElementwiseComparator(ty, tol) : tol \in Tolerances(ty)}
    \cup (IF ty = "f"
          THEN {UlpElementwiseComparator(tol) : tol \in UlpTolerances}
               \cup {default}
               \cup {ulp(eps(default, e), u) : e \in Tolerances(ty), u \in UlpTolerances}
          ELSE {})

InitScalar ==
    /\ \E ty \in ScalarTypes :
          /\ x \in ScalarValues(ty)
          /\ y \in ScalarValues(ty)
          /\ comparator \in ScalarComparators(ty)
    /\ overflow_checks \in BOOLEAN
    /\ result = NoResult
    /\ MacroIdle
    /\ ValidatorIdle
    /\ pc = "idle"

CompareScalars ==
    /\ pc = "idle"
    /\ result' = compare_scalars(x, y, comparator)
    /\ pc' = "done"
    /\ UNCHANGED <<x, y, comparator, vrows, vcols, vtriplets, vresult, overflow_checks, form, panicked, calls, callers, report>>

NextScalar == CompareScalars

SpecScalar == InitScalar /\ [][NextScalar]_vars

(***************************************************************************)
(* The assertion macros assert_matrix_eq! and assert_scalar_eq!            *)
(* (macros.rs).                                                            *)
(***************************************************************************)
Message(kind) == [some |-> TRUE, kind |-> kind]
NoMessage == [some |-> FALSE, kind |-> "none"]

\* the report of a structural failure of a sparse operand
failure_message(res) ==
    IF res.tag = "SparseEntryOutOfBounds" THEN Message("out of bounds")
    ELSE Message("duplicate")

\* a dimension mismatch left without a message
panic_message_elements_only(res) ==
    CASE res.tag = "MismatchedElements" -> Message("elements")
      [] res.tag \in {"SparseEntryOutOfBounds", "DuplicateSparseEntry"} -> failure_message(res)
      [] OTHER -> NoMessage

panic_message(res) ==
    CASE res.tag = "MismatchedElements" -> Message("elements")
      [] res.tag = "MismatchedDimensions" -> Message("dimensions")
      [] res.tag \in {"SparseEntryOutOfBounds", "DuplicateSparseEntry"} -> failure_message(res)
      [] OTHER -> NoMessage

\* ScalarComparisonResult::panic_message
scalar_panic_message(res) ==
    IF res.tag = "Mismatch" THEN Message("scalars") ELSE NoMessage

\* default()$(.$key($val))+ : the builders applied in the order written
RECURSIVE apply_keys(_, _, _)
apply_keys(c, keys, k) ==
    IF k > Len(keys) THEN c
    ELSE apply_keys(IF keys[k][1] = "eps" THEN eps(c, keys[k][2]) ELSE ulp(c, keys[k][2]),
                    keys, k + 1)

\* the comparator each form of the macros builds
macro_comparator(f) ==
    CASE f.comp = "default" -> ExactElementwiseComparator
      [] f.comp = "exact" -> ExactElementwiseComparator
      [] f.comp = "abs" -> AbsoluteElementwiseComparator("f", f.tol)
      [] f.comp = "ulp" -> UlpElementwiseComparator(f.tol)
      [] OTHER -> apply_keys(default, f.keys, 1)

\* the scalars of the operands of the macros, and the tolerances written
MacroValues == {zero, GridStep, NaN}
MacroTols == {0, GridStep}
MacroUlps == {0, 1}
MacroKeys ==
    {<<>>}
    \cup {<<<<"eps", e>>>> : e \in MacroTols}
    \cup {<<<<"ulp", u>>>> : u \in MacroUlps}
    \cup {<<<<"eps", e>>, <<"ulp", u>>>> : e \in MacroTols, u \in MacroUlps}
    \cup {<<<<"ulp", u>>, <<"eps", e>>>> : e \in MacroTols, u \in MacroUlps}
    \cup {<<<<"eps", e1>>, <<"eps", e2>>>> : e1 \in MacroTols, e2 \in MacroTols}
    \cup {<<<<"ulp", u1>>, <<"ulp", u2>>>> : u1 \in MacroUlps, u2 \in MacroUlps}
Forms(macro) ==
    {[macro |-> macro, comp |-> c, tol |-> 0, keys |-> <<>>] : c \in {"default", "exact"}}
    \cup {[macro |-> macro, comp |-> "abs", tol |-> t, keys |-> <<>>] : t \in MacroTols}
    \cup {[macro |-> macro, comp |-> "ulp", tol |-> t, keys |-> <<>>] : t \in MacroUlps}
    \cup {[macro |-> macro, comp |-> "float", tol |-> 0, keys |-> k] : k \in MacroKeys}

InitAssert ==
    /\ \/ /\ \E r \in 0..MaxAssertDim, c \in 0..MaxAssertDim :
                 x \in Matrices(r, c, 1, MacroValues)
          /\ \E r \in 0..MaxAssertDim, c \in 0..MaxAssertDim :
                 y \in Matrices(r, c, 1, MacroValues)
          /\ form \in Forms("assert_matrix_eq")
       \/ /\ x \in MacroValues
          /\ y \in MacroValues
          /\ form \in Forms("assert_scalar_eq")
    /\ comparator = ExactElementwiseComparator
    /\ result = NoResult
    /\ panicked = FALSE
    /\ calls = <<>>
    /\ report = NoReport
    /\ callers = <<>>
    /\ ValidatorIdle
    /\ overflow_checks = TRUE
    /\ pc = "idle"

\* assert_matrix_eq!(x, y, ...): panics inside the macro when the failure has
\* a message
AssertMatrixEq ==
    /\ pc = "idle"
    /\ form.macro = "assert_matrix_eq"
    /\ LET comp == macro_comparator(form)
           res == compare_matrices(x, y, comp)
       IN  /\ comparator' = comp
           /\ result' = res
           /\ panicked' = (res = Panic \/ (res # Match /\ panic_message(res).some))
           /\ calls' = compare_matrices_calls(x, y, comp)
    /\ pc' = "done"
    /\ UNCHANGED <<x, y, vrows, vcols, vtriplets, vresult, overflow_checks, form, callers, report>>

\* assert_scalar_eq!(x, y, ...)
AssertScalarEq ==
    /\ pc = "idle"
    /\ form.macro = "assert_scalar_eq"
    /\ LET comp == macro_comparator(form)
           res == compare_scalars(x, y, comp)
       IN  /\ comparator' = comp
           /\ result' = res
           /\ panicked' = (res = Panic \/ scalar_panic_message(res).some)
    /\ pc' = "done"
    /\ UNCHANGED <<x, y, vrows, vcols, vtriplets, vresult, overflow_checks, form, calls, callers, report>>

NextAssert == AssertMatrixEq \/ AssertScalarEq

SpecAssert == InitAssert /\ [][NextAssert]_vars

(***************************************************************************)
(* compare_matrices(..).unwrap_err().to_string() on two dense rows of up   *)
(* to MaxReported cells, the right one filled with one value.              *)
(***************************************************************************)
InitReport ==
    /\ \E n \in 0..MaxReported :
          /\ x \in DenseMatrices(1, n, Values)
          /\ \E v \in Values : y = MockDenseMatrix(1, n, [k \in 1..n |-> v])
    /\ comparator = ExactElementwiseComparator
    /\ result = NoResult
    /\ MacroIdle
    /\ ValidatorIdle
    /\ overflow_checks = TRUE
    /\ pc = "idle"

\* the comparison and, when it fails on elements, the rendering of the failure
Render ==
    /\ pc = "idle"
    /\ LET res == compare_matrices(x, y, comparator)
       IN  /\ result' = res
           /\ report' = IF res.tag = "MismatchedElements" THEN fmt_elements_mismatch(res)
                         ELSE NoReport
    /\ calls' = compare_matrices_calls(x, y, comparator)
    /\ pc' = "done"
    /\ UNCHANGED <<x, y, comparator, vrows, vcols, vtriplets, vresult, overflow_checks,
                   form, panicked, callers>>

NextReport == Render

SpecReport == InitReport /\ [][NextReport]_vars

(***************************************************************************)
(* MockSparseMatrix::to_dense on its own.                                  *)
(***************************************************************************)
InitToDense ==
    /\ \E r \in Dims, c \in Dims : x \in SparseMatrices(r, c, MaxTriplets, Values)
    /\ y = NoMatrix
    /\ comparator = ExactElementwiseComparator
    /\ result = NoResult
    /\ MacroIdle
    /\ ValidatorIdle
    /\ overflow_checks = TRUE
    /\ pc = "idle"

ToDense ==
    /\ pc = "idle"
    /\ result' = to_dense(x)
    /\ pc' = "done"
    /\ UNCHANGED <<x, y, comparator, vrows, vcols, vtriplets, vresult, overflow_checks,
                   form, panicked, calls, callers, report>>

NextToDense == ToDense

SpecToDense == InitToDense /\ [][NextToDense]_vars

(***************************************************************************)
(* Concurrent callers.  compare_matrices borrows its operands and the      *)
(* comparator (&impl Matrix<T>, &C) and keeps everything else in locals:   *)
(* each caller has its own position in the loops and its own vector of     *)
(* mismatches.  The callers take their steps in any order.                 *)
(***************************************************************************)
Callers == 1..MaxCallers

\* the operand a caller borrowed
Operand(name) == IF name = "x" THEN x ELSE y

Borrowed(left, right) ==
    [left |-> left, right |-> right, pc |-> "call", i |-> 0, j |-> 0,
     mismatches |-> <<>>, result |-> NoResult]

\* a vector of mismatches that all the calls in progress share
push_mismatch_shared(cs, k, failure) ==
    [c \in DOMAIN cs |-> [cs[c] EXCEPT !.mismatches = Append(@, failure)]]

\* mismatches.push(..) on the vector of the call (let mut mismatches)
push_mismatch(cs, k, failure) == [cs EXCEPT ![k].mismatches = Append(@, failure)]

InitConcurrent ==
    /\ \E r \in Dims, c \in Dims : x \in Matrices(r, c, 1, Values)
    /\ \E r \in Dims, c \in Dims : y \in Matrices(r, c, 1, Values)
    /\ comparator \in Comparators
    /\ callers \in {cs \in [Callers -> {Borrowed("x", "y"), Borrowed("y", "x")}] :
                       cs[1].left = "x"}
    /\ result = NoResult
    /\ form = NoForm
    /\ panicked = FALSE
    /\ calls = <<>>
    /\ report = NoReport
    /\ ValidatorIdle
    /\ overflow_checks = TRUE
    /\ pc = "concurrent"

\* caller k enters compare_matrices: the shape test and the choice of the
\* strategy
Enter(k) ==
    LET me == callers[k]
        xm == Operand(me.left)
        ym == Operand(me.right)
    IN  /\ pc = "concurrent"
        /\ me.pc = "call"
        /\ callers' =
              IF ~shapes_match(xm, ym)
              THEN [callers EXCEPT ![k].pc = "done",
                                   ![k].result = dimension_mismatch(xm, ym)]
              ELSE IF xm.access = "Dense" /\ ym.access = "Dense"
              THEN [callers EXCEPT ![k].pc = "scan"]
              ELSE [callers EXCEPT ![k].pc = "sparse"]
        /\ UNCHANGED <<x, y, comparator, result, vrows, vcols, vtriplets, vresult,
                       overflow_checks, form, panicked, calls, pc, report>>

\* one iteration of the loops of fetch_dense_dense_mismatches by caller k,
\* or the return of the call when the loops are over
ScanStep(k) ==
    LET me == callers[k]
        xa == Operand(me.left)
        ya == Operand(me.right)
    IN  /\ pc = "concurrent"
        /\ me.pc = "scan"
        /\ callers' =
              IF me.i >= xa.rows
              THEN [callers EXCEPT ![k].pc = "done",
                                   ![k].result = elements_result(comparator, me.mismatches)]
              ELSE IF me.j >= xa.cols
              THEN [callers EXCEPT ![k].i = me.i + 1, ![k].j = 0]
              ELSE LET a == fetch_single(xa, me.i, me.j)
                       b == fetch_single(ya, me.i, me.j)
                       r == compare(comparator, a, b)
                       moved == [callers EXCEPT ![k].j = me.j + 1]
                   IN  IF r.ok THEN moved
                       ELSE push_mismatch(moved, k,
                                MatrixElementComparisonFailure(a, b, r.error, me.i, me.j))
        /\ UNCHANGED <<x, y, comparator, result, vrows, vcols, vtriplets, vresult,
                       overflow_checks, form, panicked, calls, pc, report>>

\* the strategies with a sparse operand, whose maps and mismatches are
\* owned by the call
SparseStrategy(k) ==
    LET me == callers[k]
        xm == Operand(me.left)
        ym == Operand(me.right)
    IN  /\ pc = "concurrent"
        /\ me.pc = "sparse"
        /\ callers' = [callers EXCEPT
              ![k].pc = "done",
              ![k].result =
                  CASE xm.access = "Dense" /\ ym.access = "Sparse" ->
                          compare_dense_sparse(xm, ym, comparator, FALSE)
                    [] xm.access = "Sparse" /\ ym.access = "Dense" ->
                          compare_dense_sparse(ym, xm, comparator, TRUE)
                    [] OTHER -> compare_sparse_sparse(xm, ym, comparator)]
        /\ UNCHANGED <<x, y, comparator, result, vrows, vcols, vtriplets, vresult,
                       overflow_checks, form, panicked, calls, pc, report>>

NextConcurrent == \E k \in Callers : Enter(k) \/ ScanStep(k) \/ SparseStrategy(k)

SpecConcurrent == InitConcurrent /\ [][NextConcurrent]_vars

(***************************************************************************)
(* Properties.                                                             *)
(***************************************************************************)
Done == pc = "done"
SameShape == x.rows = y.rows /\ x.cols = y.cols
BothDense == x.access = "Dense" /\ y.access = "Dense"
BothSparse == x.access = "Sparse" /\ y.access = "Sparse"

Cells(m) == (0..(m.rows - 1)) \X (0..(m.cols - 1))

\* the coordinates stored by a sparse operand, and their well-formedness
CoordAt(m, k) == <<m.triplets[k][1], m.triplets[k][2]>>
OutOfBoundsAt(m, k) == m.triplets[k][1] >= m.rows \/ m.triplets[k][2] >= m.cols
OutOfBoundsCoords(m) == {CoordAt(m, k) : k \in {n \in 1..Len(m.triplets) : OutOfBoundsAt(m, n)}}
InBounds(m) == \A k \in 1..Len(m.triplets) : ~OutOfBoundsAt(m, k)
DuplicateFree(m) ==
    \A k1, k2 \in 1..Len(m.triplets) : k1 # k2 => CoordAt(m, k1) # CoordAt(m, k2)
WellFormed(m) == m.access = "Dense" \/ (InBounds(m) /\ DuplicateFree(m))

\* strictly ascending by (row, col)
RowMajorAscending(ms) ==
    \A k \in 1..(Len(ms) - 1) :
        \/ ms[k].row < ms[k + 1].row
        \/ (ms[k].row = ms[k + 1].row /\ ms[k].col < ms[k + 1].col)

\* C1: operands whose (rows, cols) differ yield MismatchedDimensions with the
\* left shape as dim_x and the right shape as dim_y, for every comparator,
\* every pair of access modes and every content of the operands.
C1_ShapeMismatch ==
    (Done /\ ~SameShape) =>
        result = [tag |-> "MismatchedDimensions",
                  dim_x |-> <<x.rows, x.cols>>, dim_y |-> <<y.rows, y.cols>>]

\* a malformed sparse left operand against a dense operand with zero rows
C1_Witness ==
    /\ Done /\ ~SameShape
    /\ x.access = "Sparse" /\ ~InBounds(x)
    /\ y.access = "Dense" /\ y.rows = 0
    /\ comparator = LessComparator
    /\ result.tag = "MismatchedDimensions"

\* the cells of two dense operands at which the comparator fails
FailingCells ==
    {cell \in Cells(x) :
        ~compare(comparator, fetch_single(x, cell[1], cell[2]),
                             fetch_single(y, cell[1], cell[2])).ok}

ExpectedEntry(cell) ==
    [x |-> fetch_single(x, cell[1], cell[2]),
     y |-> fetch_single(y, cell[1], cell[2]),
     error |-> compare(comparator, fetch_single(x, cell[1], cell[2]),
                                   fetch_single(y, cell[1], cell[2])).error,
     row |-> cell[1], col |-> cell[2]]

\* C2: for dense operands of equal shape the result is success iff the
\* comparator accepts every cell pair; otherwise it is MismatchedElements
\* with exactly one entry (left value, right value, error, row, col) per
\* failing cell and no entry for any other cell.
C2_DenseComplete ==
    (Done /\ SameShape /\ BothDense) =>
        /\ (result = Match) <=> (FailingCells = {})
        /\ FailingCells # {} =>
              /\ result.tag = "MismatchedElements"
              /\ Len(result.mismatches) = Cardinality(FailingCells)
              /\ \A cell \in FailingCells :
                    \E k \in 1..Len(result.mismatches) :
                        result.mismatches[k] = ExpectedEntry(cell)
              /\ \A k \in 1..Len(result.mismatches) :
                    <<result.mismatches[k].row, result.mismatches[k].col>> \in FailingCells

\* three mismatches with an accepted cell between them
C2_Witness ==
    /\ Done /\ SameShape /\ BothDense
    /\ result.tag = "MismatchedElements"
    /\ Len(result.mismatches) = 3
    /\ <<0, 1>> \notin FailingCells

\* C3: in dense-dense, dense-sparse and sparse-dense comparisons of operands
\* of equal shape the mismatches are in row-major order: strictly ascending
\* by (row, col).
C3_RowMajorOrder ==
    (Done /\ SameShape /\ ~BothSparse /\ result.tag = "MismatchedElements") =>
        RowMajorAscending(result.mismatches)

\* mismatches at (0, 1) and (1, 0), which a column-wise scan would interchange
C3_Witness ==
    /\ Done /\ SameShape /\ ~BothSparse
    /\ result.tag = "MismatchedElements"
    /\ Len(result.mismatches) = 2
    /\ result.mismatches[1].row = 0 /\ result.mismatches[1].col = 1
    /\ result.mismatches[2].row = 1 /\ result.mismatches[2].col = 0

\* every reordering of a triplet sequence
Reorderings(t) == {[k \in 1..Len(t) |-> t[p[k]]] : p \in Permutations(1..Len(t))}

WithTriplets(m, t) == [m EXCEPT !.triplets = t]

\* C4: for two sparse operands of equal shape with in-bounds,
\* duplicate-free triplets the mismatches are strictly
\* ascending by (row, col), and the result is the same for every reordering
\* of the triplets of either operand.
C4_SparseSorted ==
    (Done /\ SameShape /\ BothSparse /\ WellFormed(x) /\ WellFormed(y)) =>
        /\ result.tag = "MismatchedElements" => RowMajorAscending(result.mismatches)
        /\ \A tx \in Reorderings(x.triplets), ty \in Reorderings(y.triplets) :
              compare_matrices(WithTriplets(x, tx), WithTriplets(y, ty), comparator) = result

\* the left operand stores (1, 0) before (0, 1) and both cells mismatch
C4_Witness ==
    /\ Done /\ SameShape /\ BothSparse /\ WellFormed(x) /\ WellFormed(y)
    /\ Len(x.triplets) = 2
    /\ CoordAt(x, 1) = <<1, 0>> /\ CoordAt(x, 2) = <<0, 1>>
    /\ result.tag = "MismatchedElements"
    /\ Len(result.mismatches) = 2

\* no scalar of the operand is NaN
NoNaN(m) ==
    /\ \A k \in 1..Len(m.data) : m.data[k] # NaN
    /\ \A k \in 1..Len(m.triplets) : m.triplets[k][3] # NaN

\* C5 as stated, read for operands whose sparse triplets are in bounds and
\* duplicate-free: every matrix A, dense or sparse with any scalar content,
\* compared with itself under the exact comparator gives Ok.
C5_Original ==
    (Done /\ x = y /\ comparator = ExactElementwiseComparator /\ WellFormed(x)) =>
        result = Match

\* C5 as amended: a matrix whose sparse triplets are in bounds and
\* duplicate-free and whose scalars all equal themselves (no NaN) compared
\* with itself under the exact comparator gives Ok.
C5_Reflexive ==
    (Done /\ x = y /\ comparator = ExactElementwiseComparator /\ WellFormed(x) /\ NoNaN(x)) =>
        result = Match

\* a sparse matrix with two stored entries, one of them not zero
C5_Witness ==
    /\ Done /\ x = y /\ comparator = ExactElementwiseComparator
    /\ x.access = "Sparse" /\ WellFormed(x) /\ NoNaN(x)
    /\ Len(x.triplets) = 2
    /\ x.triplets[1][3] # zero
    /\ result = Match

\* the comparator accepts the pair (zero, zero)
AcceptsZero == compare(comparator, zero, zero).ok

Dense(m) == to_dense(m).matrix

\* C6 as stated, read for sparse operands whose triplets are in bounds and
\* duplicate-free: replacing a sparse operand by its dense form leaves the
\* result unchanged, for any comparator and any other operand, in all four
\* access-mode combinations.
C6_Original ==
    (Done /\ WellFormed(x) /\ WellFormed(y)) =>
        /\ y.access = "Sparse" => result = compare_matrices(x, Dense(y), comparator)
        /\ x.access = "Sparse" => result = compare_matrices(Dense(x), y, comparator)
        /\ BothSparse => result = compare_matrices(Dense(x), Dense(y), comparator)

\* C6 as amended: replacing a sparse operand with in-bounds, duplicate-free
\* triplets by its dense form leaves the result unchanged, for any
\* comparator when the other operand is dense and for any comparator that
\* accepts (zero, zero) when the other operand is sparse.
C6_CrossRepresentation ==
    Done =>
        /\ (y.access = "Sparse" /\ WellFormed(y) /\ (x.access = "Dense" \/ AcceptsZero)) =>
              result = compare_matrices(x, Dense(y), comparator)
        /\ (x.access = "Sparse" /\ WellFormed(x) /\ (y.access = "Dense" \/ AcceptsZero)) =>
              result = compare_matrices(Dense(x), y, comparator)
        /\ (BothSparse /\ WellFormed(x) /\ WellFormed(y) /\ AcceptsZero) =>
              result = compare_matrices(Dense(x), Dense(y), comparator)

\* a sparse 2 x 2 operand storing (1, 0) and (0, 1) against a dense one, with
\* mismatches both at a stored and at an absent coordinate
C6_Witness ==
    /\ Done /\ SameShape
    /\ x.access = "Dense" /\ y.access = "Sparse" /\ WellFormed(y)
    /\ Len(y.triplets) = 2
    /\ CoordAt(y, 1) = <<1, 0>> /\ CoordAt(y, 2) = <<0, 1>>
    /\ y.triplets[1][3] # y.triplets[2][3]
    /\ result.tag = "MismatchedElements"
    /\ Len(result.mismatches) = 3
    /\ result = compare_matrices(x, Dense(y), comparator)

\* compare(a, b) and compare(b, a) agree on all values
Symmetric(c) == \A a, b \in Values : compare(c, a, b) = compare(c, b, a)

\* C7 as stated, on the pairs of which at most one operand is malformed: for
\* a symmetric comparator the result of compare_matrices(A, B, c) is the
\* reverse of that of compare_matrices(B, A, c), and vice versa.
C7_Symmetry ==
    (Done /\ Symmetric(comparator) /\ (WellFormed(x) \/ WellFormed(y))) =>
        /\ result = reverse_result(compare_matrices(y, x, comparator))
        /\ reverse_result(result) = compare_matrices(y, x, comparator)

\* The violations of a triplet sequence t under the declared shape, stated
\* independently of the order in which a validator makes its tests.
OobAt(rows, cols, t, k) == t[k][1] >= rows \/ t[k][2] >= cols
DupAt(rows, cols, t, k) ==
    /\ ~OobAt(rows, cols, t, k)
    /\ \E k2 \in 1..(k - 1) : t[k2][1] = t[k][1] /\ t[k2][2] = t[k][2]
Violations(rows, cols, t) ==
    {k \in 1..Len(t) : OobAt(rows, cols, t, k) \/ DupAt(rows, cols, t, k)}
FirstViolation(rows, cols, t) ==
    CHOOSE k \in Violations(rows, cols, t) : \A k2 \in Violations(rows, cols, t) : k <= k2
StoredCoords(t) == {<<t[k][1], t[k][2]>> : k \in 1..Len(t)}
ExpectedValidation(rows, cols, t) ==
    IF Violations(rows, cols, t) = {}
    THEN [ok |-> TRUE,
          map |-> [coord \in StoredCoords(t) |->
                      t[CHOOSE k \in 1..Len(t) : <<t[k][1], t[k][2]>> = coord][3]]]
    ELSE LET k == FirstViolation(rows, cols, t)
         IN  [ok |-> FALSE,
              kind |-> IF OobAt(rows, cols, t, k) THEN "OutOfBounds" ELSE "Duplicate",
              coord |-> <<t[k][1], t[k][2]>>]

\* C8: validation scans the triplets in order and reports the first one that
\* violates: out of bounds iff row >= rows or col >= cols, duplicate iff in
\* bounds with a coordinate seen before (equal value or not), a repeated
\* out-of-bounds coordinate being out of bounds; it succeeds, with the map of
\* the stored entries, only if no triplet violates.
C8_FirstViolation ==
    Done => vresult = ExpectedValidation(vrows, vcols, vtriplets)

\* a repeated in-bounds triplet with the same value, followed by a triplet
\* with row = rows
C8_Witness ==
    /\ Done
    /\ Len(vtriplets) = 3
    /\ vtriplets[1] = vtriplets[2]
    /\ vtriplets[3][1] = vrows
    /\ vresult = [ok |-> FALSE, kind |-> "Duplicate",
                  coord |-> <<vtriplets[1][1], vtriplets[1][2]>>]

Structural == result.tag \in {"SparseEntryOutOfBounds", "DuplicateSparseEntry"}
InBoundsUnique(m) ==
    \A k1, k2 \in 1..Len(m.triplets) :
        (k1 # k2 /\ ~OutOfBoundsAt(m, k1) /\ ~OutOfBoundsAt(m, k2)) =>
            CoordAt(m, k1) # CoordAt(m, k2)
DuplicatedCoords(m) ==
    {CoordAt(m, k) : k \in {n \in 1..Len(m.triplets) :
        \E n2 \in 1..Len(m.triplets) : n2 # n /\ CoordAt(m, n2) = CoordAt(m, n)}}
\* the structural failure expected of a malformed sparse operand m on a side
ExpectedStructural(m, side, tag, coords) ==
    /\ result.tag = tag
    /\ result.entry.side = side
    /\ result.entry.coord \in coords

\* C9: a structural failure carries the side of the sparse operand it comes
\* from, in the caller's order.  With equal shapes, a dense operand against a
\* sparse one that mixes out-of-bounds triplets with unique in-bounds ones
\* gives SparseEntryOutOfBounds tagged Right (sparse on the right) or Left
\* (sparse on the left) with one of its out-of-bounds coordinates; a sparse
\* operand with a duplicated in-bounds coordinate gives DuplicateSparseEntry
\* tagged the same way with the duplicated coordinate.
C9_SideTag ==
    (Done /\ SameShape) =>
        /\ (x.access = "Dense" /\ y.access = "Sparse" /\ ~InBounds(y) /\ InBoundsUnique(y)) =>
              ExpectedStructural(y, "Right", "SparseEntryOutOfBounds", OutOfBoundsCoords(y))
        /\ (x.access = "Sparse" /\ y.access = "Dense" /\ ~InBounds(x) /\ InBoundsUnique(x)) =>
              ExpectedStructural(x, "Left", "SparseEntryOutOfBounds", OutOfBoundsCoords(x))
        /\ (x.access = "Dense" /\ y.access = "Sparse" /\ InBounds(y) /\ ~DuplicateFree(y)) =>
              ExpectedStructural(y, "Right", "DuplicateSparseEntry", DuplicatedCoords(y))
        /\ (x.access = "Sparse" /\ y.access = "Dense" /\ InBounds(x) /\ ~DuplicateFree(x)) =>
              ExpectedStructural(x, "Left", "DuplicateSparseEntry", DuplicatedCoords(x))
        /\ (Structural /\ result.entry.side = "Left") =>
              /\ x.access = "Sparse"
              /\ result.entry.coord \in OutOfBoundsCoords(x) \cup DuplicatedCoords(x)
        /\ (Structural /\ result.entry.side = "Right") =>
              /\ y.access = "Sparse"
              /\ result.entry.coord \in OutOfBoundsCoords(y) \cup DuplicatedCoords(y)

\* a sparse left operand storing an in-bounds triplet before an out-of-bounds
\* one, against a dense right operand
C9_Witness ==
    /\ Done /\ SameShape
    /\ x.access = "Sparse" /\ y.access = "Dense"
    /\ Len(x.triplets) = 2
    /\ ~OutOfBoundsAt(x, 1) /\ OutOfBoundsAt(x, 2)
    /\ result = [tag |-> "SparseEntryOutOfBounds",
                 entry |-> [side |-> "Left", coord |-> CoordAt(x, 2)]]

\* C10: in a sparse-sparse comparison of operands of equal shape the left
\* operand is validated first: a malformed left operand gives its own first
\* violation tagged Left whatever the right operand holds, and a failure
\* tagged Right is returned only when the left operand validates.
C10_LeftFirst ==
    (Done /\ SameShape /\ BothSparse) =>
        /\ ~WellFormed(x) =>
              LET v == ExpectedValidation(x.rows, x.cols, x.triplets)
              IN  /\ result.tag = (IF v.kind = "OutOfBounds" THEN "SparseEntryOutOfBounds"
                                   ELSE "DuplicateSparseEntry")
                  /\ result.entry = [side |-> "Left", coord |-> v.coord]
        /\ (Structural /\ result.entry.side = "Right") => WellFormed(x)

\* both operands malformed: a duplicate on the left, an out-of-bounds triplet
\* on the right
C10_Witness ==
    /\ Done /\ SameShape /\ BothSparse
    /\ InBounds(x) /\ ~DuplicateFree(x)
    /\ ~InBounds(y)
    /\ result.tag = "DuplicateSparseEntry"
    /\ result.entry.side = "Left"

ResultTags ==
    {"Ok", "MismatchedDimensions", "MismatchedElements",
     "SparseEntryOutOfBounds", "DuplicateSparseEntry"}

\* the cells at which the operands, both with a dense form, hold values the
\* comparator rejects
DifferElementwise ==
    /\ to_dense(x).ok /\ to_dense(y).ok
    /\ \E cell \in Cells(x) :
          ~compare(comparator, fetch_single(Dense(x), cell[1], cell[2]),
                               fetch_single(Dense(y), cell[1], cell[2])).ok

\* C11: a call returns one outcome, chosen by a fixed priority: differing
\* shapes give MismatchedDimensions whatever else is wrong; with equal shapes
\* a sparse operand that does not validate gives a structural failure even
\* when the operands also differ elementwise; MismatchedElements is returned
\* only when the shapes match and every sparse operand validates.
C11_Priority ==
    Done =>
        /\ result.tag \in ResultTags
        /\ (result.tag = "MismatchedDimensions") <=> ~SameShape
        /\ (SameShape /\ ~(WellFormed(x) /\ WellFormed(y))) => Structural
        /\ Structural => (SameShape /\ ~(WellFormed(x) /\ WellFormed(y)))
        /\ (result.tag = "MismatchedElements") =>
              (SameShape /\ WellFormed(x) /\ WellFormed(y))

\* equal shapes, a sparse operand with a duplicate, and cells that differ
C11_Witness ==
    /\ Done /\ SameShape
    /\ x.access = "Dense" /\ y.access = "Sparse"
    /\ InBounds(y) /\ ~DuplicateFree(y)
    /\ DifferElementwise
    /\ result.tag = "DuplicateSparseEntry"

IsAbs == comparator.kind = "abs"
IsUlp == comparator.kind = "ulp"
IsFloat == comparator.kind = "float"
IsExact == comparator.kind = "exact"

TrueDistance(a, b) ==
    IF a = NaN \/ b = NaN THEN NaN
    ELSE IF scalar_eq(a, b) THEN 0
    ELSE IF a \in {Inf, NegInf} \/ b \in {Inf, NegInf} THEN Inf
    ELSE IF num(a) > num(b) THEN num(a) - num(b) ELSE num(b) - num(a)

\* C14: the absolute comparator with tol >= 0 returns Ok iff |a - b| <= tol,
\* the bound included, and otherwise Err carrying exactly |a - b|, for
\* unsigned integers, for every pair of a signed integer type's range, and
\* for floats.
C14_AbsTolerance ==
    (Done /\ IsAbs /\ comparator.tol >= 0) =>
        LET d == TrueDistance(x, y)
        IN  IF scalar_le(d, comparator.tol) THEN result = ScalarMatch
            ELSE /\ result.tag = "Mismatch"
                 /\ result.mismatch.error = AbsoluteError(d)

\* C15: the ULP comparator returns Ok iff ulp_diff(a, b) is ExactMatch or
\* Difference(d) with d <= tol, and otherwise Err carrying the outcome of
\* ulp_diff unchanged; a NaN operand and operands of different sign that are
\* not equal are errors for every tol, never reported as a Difference.
C15_UlpOutcome ==
    (Done /\ IsUlp) =>
        LET diff == ulp_diff(x, y)
        IN  /\ IF diff = ExactMatch \/ (diff.tag = "Difference" /\ diff.diff <= comparator.tol)
               THEN result = ScalarMatch
               ELSE /\ result.tag = "Mismatch"
                    /\ result.mismatch.error = UlpError(diff)
            /\ (x = NaN \/ y = NaN) =>
                  (result.tag = "Mismatch" /\ result.mismatch.error = UlpError(Nan))
            /\ (x # NaN /\ y # NaN /\ ~scalar_eq(x, y)
                  /\ is_sign_positive(x) # is_sign_positive(y)) =>
                  (result.tag = "Mismatch" /\ result.mismatch.error = UlpError(IncompatibleSigns))

\* two floats of the same sign exactly tol steps apart, tol > 0
C15_Witness ==
    /\ Done /\ IsUlp /\ comparator.tol > 0
    /\ x > 0 /\ y = x + comparator.tol * GridStep /\ y < Inf
    /\ result = ScalarMatch

\* C16: the float comparator returns Ok whenever its absolute stage accepts,
\* and otherwise exactly the result of its ULP stage, so that it fails iff
\* both stages fail, with the error of the ULP stage (stated for an epsilon
\* >= 0, with which the absolute stage returns); the default ULP tolerance
\* is 4.
C16_TwoStage ==
    /\ default.ulp.tol = 4
    /\ (Done /\ IsFloat /\ comparator.abs.tol >= 0) =>
          LET first == compare_scalars(x, y, comparator.abs)
              second == compare_scalars(x, y, comparator.ulp)
          IN  /\ first = ScalarMatch => result = ScalarMatch
              /\ first # ScalarMatch =>
                    /\ result.tag = second.tag
                    /\ result.tag = "Mismatch" =>
                          result.mismatch.error = second.mismatch.error
              /\ (result.tag = "Mismatch") <=>
                    (first.tag = "Mismatch" /\ second.tag = "Mismatch")

\* the default comparator on two floats four steps apart: the absolute stage
\* rejects them, the ULP stage accepts them
C16_Witness ==
    /\ Done /\ comparator = default
    /\ x = GridStep /\ y = 5 * GridStep
    /\ compare_scalars(x, y, comparator.abs).tag = "Mismatch"
    /\ result = ScalarMatch

\* the comparators of the model whose compare returns on every input of the
\* state
Returns == compare(comparator, x, y) # CmpPanic

\* C17: compare_scalars(x, y, c) returns success iff c.compare(x, y) is Ok,
\* and otherwise a failure carrying x as the left value, y as the right
\* value, the error returned by c and the comparator.
C17_CompareScalars ==
    (Done /\ Returns) =>
        LET r == compare(comparator, x, y)
        IN  /\ (result = ScalarMatch) <=> r.ok
            /\ ~r.ok => result = [tag |-> "Mismatch", comparator |-> comparator,
                                  mismatch |-> [x |-> x, y |-> y, error |-> r.error]]

\* two different values under the exact comparator
C17_Witness ==
    /\ Done /\ IsExact
    /\ x # y /\ x # NaN /\ y # NaN
    /\ result.tag = "Mismatch"
    /\ result.mismatch = [x |-> x, y |-> y, error |-> ExactError]

\* the comparator the documentation gives for each form of the macros
DocumentedComparator ==
    CASE form.comp \in {"default", "exact"} -> ExactElementwiseComparator
      [] form.comp = "abs" -> [kind |-> "abs", ty |-> "f", tol |-> form.tol]
      [] form.comp = "ulp" -> [kind |-> "ulp", tol |-> form.tol]
      [] OTHER -> comparator

ElementOps == {"access", "fetch_single", "fetch_triplets", "compare"}
CallsOf(ops, on) == {k \in 1..Len(calls) : calls[k].op \in ops /\ calls[k].on = on}

\* C20: the dimensions are compared before any element access: a call on
\* operands of different shapes returns having called only rows() and cols(),
\* never access(), fetch_single, fetch_triplets or compare; every call
\* starts with rows() of both operands; and with equal shapes the call goes
\* on to access both operands and to scan or validate their elements.
C20_DimensionsFirst ==
    Done =>
        /\ Len(calls) >= 2
        /\ calls[1] = Call("rows", "x", 0, 0) /\ calls[2] = Call("rows", "y", 0, 0)
        /\ ~SameShape => \A k \in 1..Len(calls) : calls[k].op \notin ElementOps
        /\ SameShape =>
              /\ CallsOf({"access"}, "x") # {} /\ CallsOf({"access"}, "y") # {}
              /\ x.access = "Sparse" => CallsOf({"fetch_triplets"}, "x") # {}
              /\ (x.access = "Dense" /\ y.access = "Sparse") =>
                    CallsOf({"fetch_triplets"}, "y") # {}
              /\ BothDense =>
                    /\ Cardinality(CallsOf({"fetch_single"}, "x")) = x.rows * x.cols
                    /\ Cardinality(CallsOf({"fetch_single"}, "y")) = x.rows * x.cols

\* operands with stored elements and different shapes: only the dimensions
\* were asked
C20_Witness ==
    /\ Done /\ ~SameShape
    /\ x.access = "Dense" /\ x.rows * x.cols >= 1
    /\ y.access = "Sparse" /\ Len(y.triplets) >= 1
    /\ result.tag = "MismatchedDimensions"
    /\ Len(calls) >= 6
    /\ \A k \in 1..Len(calls) : calls[k].op \in {"rows", "cols"}

CallerDone(k) == pc = "concurrent" /\ callers[k].pc = "done"
Alone(k) == compare_matrices(Operand(callers[k].left), Operand(callers[k].right), comparator)

\* at most one caller takes a step, and the step leaves the operands, the
\* comparator and the locals of the other callers as they were
OwnStateOnly ==
    /\ x' = x /\ y' = y /\ comparator' = comparator
    /\ \E k \in Callers : \A other \in Callers \ {k} : callers'[other] = callers[other]

\* C19: a comparison call is deterministic and free of side effects: under
\* any interleaving of the steps of concurrent callers each caller returns
\* what its call returns when run alone, two callers with the same operands
\* and comparator return equal results, and no step changes the operands,
\* the comparator or the state of another call.
C19_Deterministic ==
    /\ [](\A k \in Callers : CallerDone(k) => callers[k].result = Alone(k))
    /\ [](\A k1, k2 \in Callers :
            (CallerDone(k1) /\ CallerDone(k2)
             /\ callers[k1].left = callers[k2].left
             /\ callers[k1].right = callers[k2].right)
            => callers[k1].result = callers[k2].result)
    /\ [][OwnStateOnly]_vars

\* caller 2 ran its whole call, finding mismatches, while caller 1 was in
\* the middle of its scan with a mismatch already collected
C19_Witness ==
    /\ pc = "concurrent"
    /\ callers[1].pc = "scan" /\ callers[1].mismatches # <<>>
    /\ callers[1].i < Operand(callers[1].left).rows
    /\ callers[2].pc = "done"
    /\ callers[2].result.tag = "MismatchedElements"
    /\ callers[2].result = Alone(2)

FetchCalls == {k \in 1..Len(calls) : calls[k].op = "fetch_single"}
Asked(k) == IF calls[k].on = "x" THEN x ELSE y

\* C21: every fetch_single(i, j) that compare_matrices issues goes to a dense
\* operand and has i < rows() and j < cols() of that operand, shapes with a
\* zero dimension included (for which no fetch is issued at all).
C21_FetchInRange ==
    Done =>
        /\ \A k \in FetchCalls :
              /\ Asked(k).access = "Dense"
              /\ calls[k].row < Asked(k).rows
              /\ calls[k].col < Asked(k).cols
              /\ fetch_single_in_range(Asked(k), calls[k].row, calls[k].col)
        /\ (SameShape /\ x.rows * x.cols = 0) => FetchCalls = {}

\* a non-square dense pair whose last cell was fetched from both operands
C21_Witness ==
    /\ Done /\ BothDense /\ SameShape
    /\ x.rows = 1 /\ x.cols = 2
    /\ \E k \in FetchCalls : calls[k] = Call("fetch_single", "y", 0, 1)
    /\ \E k \in FetchCalls : calls[k] = Call("fetch_single", "x", 0, 1)

\* C22: with eps = 0 the float comparator returns, for all a and b, the
\* result of UlpElementwiseComparator with the same max_ulp (Ok, or the same
\* UlpError); with ULP tolerance 0 and eps = t > 0 it returns Ok exactly
\* when AbsoluteElementwiseComparator{tol: t} returns Ok and Err exactly
\* when that comparator returns Err.
C22_Degenerate ==
    /\ (Done /\ IsFloat /\ comparator.abs.tol = 0) =>
          LET ulpcomp == UlpCompare(UlpElementwiseComparator(comparator.ulp.tol), x, y)
          IN  /\ (result = ScalarMatch) <=> ulpcomp.ok
              /\ ~ulpcomp.ok => (result.tag = "Mismatch"
                                 /\ result.mismatch.error = ulpcomp.error)
    /\ (Done /\ IsFloat /\ comparator.ulp.tol = 0 /\ comparator.abs.tol > 0) =>
          LET abscomp == AbsCompare(AbsoluteElementwiseComparator("f", comparator.abs.tol), x, y)
          IN  /\ abscomp # CmpPanic
              /\ (result = ScalarMatch) <=> abscomp.ok
              /\ (result.tag = "Mismatch") <=> ~abscomp.ok

\* eps = 0 and two different floats within max_ulp steps: the absolute
\* stage rejects, the ULP stage accepts, as the ULP comparator alone does
C22_Witness ==
    /\ Done /\ IsFloat /\ comparator.abs.tol = 0 /\ comparator.ulp.tol = 2
    /\ x = GridStep /\ y = 3 * GridStep
    /\ ~AbsCompare(comparator.abs, x, y).ok
    /\ UlpCompare(UlpElementwiseComparator(2), x, y).ok
    /\ result = ScalarMatch

\* the value of the last key of the given name, dflt when there is none
LastOf(name, keys, dflt) ==
    LET at == {k \in 1..Len(keys) : keys[k][1] = name}
    IN  IF at = {} THEN dflt
        ELSE keys[CHOOSE k \in at : \A other \in at : other <= k][2]

\* C23: eps(e) replaces only the absolute tolerance and ulp(u) only the ULP
\* tolerance of the float comparator: after any chain of overrides on
\* default() each threshold is the last value given for it, or its default
\* when none was given, so eps(e).ulp(u) equals ulp(u).eps(e) and a repeated
\* override leaves the last value.
C23_Independent ==
    (Done /\ form.comp = "float") =>
        /\ comparator.kind = "float"
        /\ comparator.abs = AbsoluteElementwiseComparator("f", LastOf("eps", form.keys, 4 * epsilon))
        /\ comparator.ulp = UlpElementwiseComparator(LastOf("ulp", form.keys, DefaultUlpTol))
        /\ (Len(form.keys) = 2 /\ form.keys[1][1] # form.keys[2][1]) =>
              comparator = apply_keys(default, <<form.keys[2], form.keys[1]>>, 1)
        /\ (Len(form.keys) = 2 /\ form.keys[1][1] = form.keys[2][1]) =>
              comparator = apply_keys(default, <<form.keys[2]>>, 1)

\* ulp = 1, then eps: the ULP tolerance given first is still there
C23_Witness ==
    /\ Done /\ form.comp = "float"
    /\ form.keys = <<<<"ulp", 1>>, <<"eps", GridStep>>>>
    /\ comparator = FloatElementwiseComparator(AbsoluteElementwiseComparator("f", GridStep),
                                               UlpElementwiseComparator(1))

Rendered == Done /\ result.tag = "MismatchedElements"
Listed(n) == IF n < 12 THEN n ELSE 12

\* C24: the report of a MismatchedElements failure with n mismatches states
\* the total n, lists the first min(n, 12) mismatches in list order and no
\* others, and has the line "(n - 12) mismatching elements not shown" iff
\* n > 12, so that listed plus hidden is n; the cap is the constant 12.
C24_ReportCap ==
    /\ MAX_MISMATCH_REPORTS = 12
    /\ Rendered =>
          LET n == Len(result.mismatches)
          IN  /\ report.rendered
              /\ report.num = n
              /\ Len(report.mismatches) = Listed(n)
              /\ \A k \in 1..Listed(n) : report.mismatches[k] = result.mismatches[k]
              /\ report.overflow_msg.shown <=> n > 12
              /\ report.overflow_msg.shown => report.overflow_msg.hidden = n - 12
              /\ Len(report.mismatches) + report.overflow_msg.hidden = n
              /\ report.description = result.comparator_description

\* fourteen mismatches: twelve listed, two not shown
C24_Witness ==
    /\ Rendered
    /\ Len(result.mismatches) = 14
    /\ report.num = 14
    /\ Len(report.mismatches) = 12
    /\ report.overflow_msg = OverflowMsg(2)

Failed == Done /\ result # Match /\ result # Panic

\* C25: reverse maps a failure to a failure of the same variant with the
\* roles of left and right interchanged (dimension tuples swapped; the two
\* values of every element entry swapped, with row, col, error, order and
\* comparator description kept; the side of an Entry flipped, with the same
\* coordinate), so that reverse(reverse(f)) = f, for all four variants.
C25_ReverseSwap ==
    Failed =>
        LET r == reverse(result)
        IN  /\ r.tag = result.tag
            /\ reverse(r) = result
            /\ result.tag = "MismatchedDimensions" =>
                  (r.dim_x = result.dim_y /\ r.dim_y = result.dim_x)
            /\ result.tag = "MismatchedElements" =>
                  /\ r.comparator_description = result.comparator_description
                  /\ Len(r.mismatches) = Len(result.mismatches)
                  /\ \A k \in 1..Len(result.mismatches) :
                        /\ r.mismatches[k].x = result.mismatches[k].y
                        /\ r.mismatches[k].y = result.mismatches[k].x
                        /\ r.mismatches[k].row = result.mismatches[k].row
                        /\ r.mismatches[k].col = result.mismatches[k].col
                        /\ r.mismatches[k].error = result.mismatches[k].error
            /\ result.tag \in {"SparseEntryOutOfBounds", "DuplicateSparseEntry"} =>
                  /\ r.entry.coord = result.entry.coord
                  /\ r.entry.side # result.entry.side

\* C26: whenever compare_matrices returns MismatchedElements the list of
\* mismatches is not empty, every entry has row < rows and col < cols of the
\* compared shape, no two entries share a coordinate, and the comparator
\* applied to the two values an entry records fails with the error the
\* entry records.
C26_MismatchInvariants ==
    (Done /\ result.tag = "MismatchedElements") =>
        LET ms == result.mismatches
        IN  /\ SameShape
            /\ Len(ms) >= 1
            /\ \A k \in 1..Len(ms) :
                  /\ ms[k].row < x.rows /\ ms[k].col < x.cols
                  /\ ms[k].row < y.rows /\ ms[k].col < y.cols
                  /\ compare(comparator, ms[k].x, ms[k].y) = CmpErr(ms[k].error)
            /\ \A k1, k2 \in 1..Len(ms) :
                  (ms[k1].row = ms[k2].row /\ ms[k1].col = ms[k2].col) => k1 = k2

\* a sparse left operand against a dense right one with two mismatches, the
\* recorded values being those of the operands in their order
C26_Witness ==
    /\ Done /\ result.tag = "MismatchedElements"
    /\ x.access = "Sparse" /\ y.access = "Dense"
    /\ Len(result.mismatches) = 2
    /\ comparator = LessComparator
    /\ \E k \in 1..2 : result.mismatches[k].x = 1 /\ result.mismatches[k].y = 0

\* the value a valid sparse operand holds at a coordinate: the stored one,
\* zero when the coordinate is not stored
SparseValue(m, coord) ==
    IF coord \in StoredCoords(m.triplets)
    THEN m.triplets[CHOOSE k \in 1..Len(m.triplets) : CoordAt(m, k) = coord][3]
    ELSE zero
Union == StoredCoords(x.triplets) \cup StoredCoords(y.triplets)
CompareCalls == {k \in 1..Len(calls) : calls[k].op = "compare"}
Reported ==
    IF result.tag = "MismatchedElements"
    THEN {result.mismatches[k] : k \in 1..Len(result.mismatches)}
    ELSE {}

\* C27: in a sparse-sparse comparison of valid operands exactly the
\* coordinates stored by at least one operand are compared, each once, with
\* zero for the operand that lacks the coordinate; a coordinate stored by
\* neither is not compared and not reported, whatever compare(zero, zero)
\* returns, and a stored zero against an absent entry is compared as zero
\* against zero.
C27_UnionOnly ==
    (Done /\ BothSparse /\ SameShape /\ WellFormed(x) /\ WellFormed(y)) =>
        /\ {<<calls[k].row, calls[k].col>> : k \in CompareCalls} = Union
        /\ Cardinality(CompareCalls) = Cardinality(Union)
        /\ Reported =
              {MatrixElementComparisonFailure(
                   SparseValue(x, coord), SparseValue(y, coord),
                   compare(comparator, SparseValue(x, coord), SparseValue(y, coord)).error,
                   coord[1], coord[2]) :
               coord \in {u \in Union :
                   ~compare(comparator, SparseValue(x, u), SparseValue(y, u)).ok}}
        /\ \A m \in Reported : <<m.row, m.col>> \in Union
        /\ Len(calls) = 6 + 2 + Cardinality(Union)

\* under a comparator that rejects (zero, zero): the left operand stores a
\* zero at a coordinate the right one lacks, which is reported as zero
\* against zero, and a cell stored by neither is not reported
C27_Witness ==
    /\ Done /\ BothSparse /\ SameShape /\ WellFormed(x) /\ WellFormed(y)
    /\ x.rows = 2 /\ x.cols = 2
    /\ comparator = LessComparator
    /\ ~compare(comparator, zero, zero).ok
    /\ x.triplets = <<(<<0, 0, 0>>)>>
    /\ y.triplets = <<(<<1, 1, 1>>)>>
    /\ Len(result.mismatches) = 1
    /\ result.mismatches[1] =
          MatrixElementComparisonFailure(zero, zero, compare(comparator, zero, zero).error, 0, 0)

\* C28: the absolute comparator called with a negative tolerance fails its
\* assertion for every pair (a, b), equal ones included: the call returns
\* neither Ok nor Err.
C28_NegativeTolerance ==
    (Done /\ IsAbs /\ comparator.tol < 0) =>
        /\ compare(comparator, x, y) = CmpPanic
        /\ result = Panic
        /\ result # ScalarMatch
        /\ result.tag # "Mismatch"

\* two equal signed integers under a negative tolerance
C28_Witness ==
    /\ Done /\ IsAbs /\ comparator.ty = "i" /\ comparator.tol = 0 - 1
    /\ x = y
    /\ result = Panic

\* C29: with tol = 0 the absolute comparator accepts exactly the pairs the
\* exact comparator accepts: for all a and b of a bounded integer type its
\* compare is Ok iff a = b iff the compare of the exact comparator is Ok.
C29_ZeroTolIsExact ==
    (Done /\ IsAbs /\ comparator.ty \in {"u", "i"} /\ comparator.tol = 0) =>
        /\ (result = ScalarMatch) <=> (x = y)
        /\ (result = ScalarMatch) <=> ExactCompare(x, y).ok

\* the value of the last triplet of m stored at (i, j), zero without one
LastAt(m, i, j) ==
    LET at == {k \in 1..Len(m.triplets) : CoordAt(m, k) = <<i, j>>}
    IN  IF at = {} THEN zero
        ELSE m.triplets[CHOOSE k \in at : \A other \in at : other <= k][3]

\* C30: to_dense returns Err iff a triplet has row >= rows or col >= cols;
\* otherwise a dense matrix of the same shape whose cell (i, j) holds the
\* value of the last triplet, in sequence order, with coordinate (i, j), and
\* zero when there is none: a duplicated coordinate is overwritten, not
\* rejected.
C30_ToDense ==
    Done =>
        /\ ~result.ok <=> \E k \in 1..Len(x.triplets) : OutOfBoundsAt(x, k)
        /\ result.ok =>
              /\ result.matrix.access = "Dense"
              /\ result.matrix.rows = x.rows /\ result.matrix.cols = x.cols
              /\ Len(result.matrix.data) = x.rows * x.cols
              /\ \A i \in 0..(x.rows - 1), j \in 0..(x.cols - 1) :
                    fetch_single(result.matrix, i, j) = LastAt(x, i, j)

\* a coordinate stored twice with different values: the later value is kept
C30_Witness ==
    /\ Done /\ result.ok
    /\ x.rows = 2 /\ x.cols = 2
    /\ x.triplets = <<(<<1, 0, 0>>), (<<0, 1, 1>>), (<<1, 0, 1>>)>>
    /\ result.matrix.data = <<0, 1, 1, 0>>

====
